---------------------------- MODULE Spec2Model ----------------------------
(***************************************************************************)
(* A model of the ice-hockey swing-speed analyzer                          *)
(* (analysis-service/analyzer.py, analysis-service/app.py).                *)
(*                                                                         *)
(* One call of IceHockeyAnalyzer.analyze() is a sequential pipeline.  The  *)
(* pipeline is cut at its progress milestones: every action is one         *)
(* report(pct) call followed by the pipeline stage that the code runs      *)
(* before the next milestone.                                              *)
(*                                                                         *)
(* Numbers.  Python floats are modelled by exact rationals <<n, d>> with   *)
(* d > 0 in lowest terms.  Weights and scores that the code writes as      *)
(* two-decimal literals are kept in hundredths.  A Python None for a       *)
(* number is the value 0 where the code tests the value by truthiness      *)
(* (detector outputs), and an explicit record field where the code tests   *)
(* "is None" (the reference length, the wrist speed).                      *)
(*                                                                         *)
(* Python list indices are 0-based; TLA+ sequences are 1-based.  A Python  *)
(* index i is position i + 1 of the sequence.                              *)
(***************************************************************************)
EXTENDS Integers, Sequences, FiniteSets, TLC

(***************************************************************************)
(* Arithmetic.  A Python float is kept as an exact rational <<n, d>>; the   *)
(* rounding of float addition and division is applied where numpy sums and  *)
(* divides a list (numpy.mean), in a binary format of FloatBits significand *)
(* bits with round-half-to-even.                                            *)
(***************************************************************************)
Abs(x) == IF x < 0 THEN -x ELSE x

Min2(a, b) == IF a <= b THEN a ELSE b

Max2(a, b) == IF a >= b THEN a ELSE b

RECURSIVE GCD(_, _)
GCD(a, b) == IF b = 0 THEN a ELSE GCD(b, a % b)

\* the rational n / d (d # 0), sign in the numerator, lowest terms
Rat(n, d) ==
    LET g == GCD(Abs(n), Abs(d))
        s == IF d < 0 THEN -1 ELSE 1
    IN  <<(s * n) \div g, (s * d) \div g>>

RInt(n) == <<n, 1>>

RAdd(a, b) == Rat(a[1] * b[2] + b[1] * a[2], a[2] * b[2])

RMul(a, b) == Rat(a[1] * b[1], a[2] * b[2])

\* a / b, b # 0
RDiv(a, b) == Rat(a[1] * b[2], a[2] * b[1])

RLt(a, b) == a[1] * b[2] < b[1] * a[2]

RLe(a, b) == a[1] * b[2] <= b[1] * a[2]

RMax(a, b) == IF RLt(a, b) THEN b ELSE a

RMin(a, b) == IF RLt(b, a) THEN b ELSE a

RZero == RInt(0)

ROne == RInt(1)

\* floor of a rational (\div rounds toward minus infinity)
RFloor(a) == a[1] \div a[2]

\* Python's round(x, k) with scale = 10^k, as an integer count of 10^-k units;
\* an exact tie goes to the even neighbour
RoundTo(a, scale) ==
    LET x == Rat(a[1] * scale, a[2])
        f == RFloor(x)
        r == RAdd(x, RInt(-f))
        twice == Rat(2 * r[1], r[2])
    IN  IF RLt(twice, ROne) THEN f
        ELSE IF RLt(ROne, twice) THEN f + 1
        ELSE IF f % 2 = 0 THEN f ELSE f + 1

\* integer square root; exact on the perfect squares the pose catalogue uses
ISqrt(n) == CHOOSE r \in 0..(n + 1) : r * r <= n /\ (r + 1) * (r + 1) > n

\* significand bits of the float format (float64 has 53)
FloatBits == 5

RECURSIVE Pow2(_)
Pow2(k) == IF k = 0 THEN 1 ELSE 2 * Pow2(k - 1)

\* a > 0 as <<m, f>> with a = m * f, f a power of two and
\* 2^(FloatBits - 1) <= m < 2^FloatBits
RECURSIVE Normalise(_, _)
Normalise(m, f) ==
    IF RLe(RInt(Pow2(FloatBits)), m)
    THEN Normalise(RDiv(m, RInt(2)), RMul(f, RInt(2)))
    ELSE IF RLt(m, RInt(Pow2(FloatBits - 1)))
    THEN Normalise(RMul(m, RInt(2)), RDiv(f, RInt(2)))
    ELSE <<m, f>>

\* the significand rounded to an integer, ties to even, times the power of two
Rounded(mf) == RMul(RInt(RoundTo(mf[1], 1)), mf[2])

\* the float nearest to the rational a
Fl(a) ==
    IF a[1] = 0 THEN a
    ELSE IF a[1] > 0 THEN Rounded(Normalise(a, ROne))
    ELSE RMul(RInt(-1), Rounded(Normalise(RMul(RInt(-1), a), ROne)))

\* the running float sum of s[k..], starting from acc
RECURSIVE SumFrom(_, _, _)
SumFrom(s, k, acc) ==
    IF k > Len(s) THEN acc ELSE SumFrom(s, k + 1, Fl(RAdd(acc, s[k])))

\* numpy.add.reduce of a list of floats, element by element
SumSeq(s) == SumFrom(s, 1, RZero)

\* s with x inserted before the first element greater than x (s ascending)
RECURSIVE InsertAsc(_, _)
InsertAsc(x, s) ==
    IF s = <<>> THEN <<x>>
    ELSE IF RLt(x, Head(s)) THEN <<x>> \o s
    ELSE <<Head(s)>> \o InsertAsc(x, Tail(s))

RECURSIVE SortAsc(_)
SortAsc(s) == IF s = <<>> THEN <<>> ELSE InsertAsc(Head(s), SortAsc(Tail(s)))

\* the median of a non-empty ascending list
MedianOfSorted(t) ==
    IF Len(t) % 2 = 1 THEN t[(Len(t) + 1) \div 2]
    ELSE RDiv(RAdd(t[Len(t) \div 2], t[Len(t) \div 2 + 1]), RInt(2))

\* numpy.median of a non-empty list of rationals
Median(s) == MedianOfSorted(SortAsc(s))

\* numpy.mean of a non-empty list of floats: the float sum divided by the
\* count
Mean(s) == Fl(RDiv(SumSeq(s), RInt(Len(s))))

(***************************************************************************)
(* Program constants                                                       *)
(***************************************************************************)
STICK_LENGTH_CM == 155

PLAYER_HEIGHT_CM == 183

ARM_LENGTH_CM == 65

SHOULDER_WIDTH_CM == 45

\* STICK_WIDTH_RATIO_FALLBACK = 0.35, in hundredths
STICK_WIDTH_RATIO_FALLBACK == 35

MAX_FRAME_HEIGHT == 720

\* "if len(gray_frames) < 5"
MIN_FRAMES == 5

LM_NOSE == 0

LM_LEFT_SHOULDER == 11

LM_RIGHT_SHOULDER == 12

LM_LEFT_ELBOW == 13

LM_RIGHT_ELBOW == 14

LM_LEFT_WRIST == 15

LM_RIGHT_WRIST == 16

LM_LEFT_HIP == 23

LM_RIGHT_HIP == 24

LM_LEFT_KNEE == 25

LM_RIGHT_KNEE == 26

LM_LEFT_ANKLE == 27

LM_RIGHT_ANKLE == 28

OVERLAY_LM_INDICES ==
    {LM_NOSE, LM_LEFT_SHOULDER, LM_RIGHT_SHOULDER, LM_LEFT_ELBOW, LM_RIGHT_ELBOW,
     LM_LEFT_WRIST, LM_RIGHT_WRIST, LM_LEFT_HIP, LM_RIGHT_HIP,
     LM_LEFT_KNEE, LM_RIGHT_KNEE, LM_LEFT_ANKLE, LM_RIGHT_ANKLE}

\* the landmarks _run_pose_estimation keeps in the internal records
INTERNAL_LM_INDICES ==
    {LM_NOSE, LM_LEFT_SHOULDER, LM_RIGHT_SHOULDER, LM_LEFT_ELBOW, LM_RIGHT_ELBOW,
     LM_LEFT_WRIST, LM_RIGHT_WRIST, LM_LEFT_HIP, LM_RIGHT_HIP,
     LM_LEFT_ANKLE, LM_RIGHT_ANKLE}


(***************************************************************************)
(* Optional values: None is <<>>, a present value x is <<x>>               *)
(***************************************************************************)
None == <<>>

Some(x) == <<x>>

IsNone(o) == o = <<>>

TheValue(o) == o[1]

(***************************************************************************)
(* The external collaborators.                                             *)
(*                                                                         *)
(* A decoded frame is described by what the pipeline can observe of it:    *)
(*   pos    the position (px) of the moving object; the Farneback          *)
(*          99th-percentile magnitude of a frame pair is the displacement  *)
(*          of the object between the two frames;                          *)
(*   pose   which landmark set the pose landmarker reports for the frame;  *)
(*   scale  the player's size in the picture (px per catalogue unit).      *)
(***************************************************************************)
\* cv2.calcOpticalFlowFarneback + cartToPolar + percentile(99) of one pair
Farneback(f1, f2) == Abs(f2.pos - f1.pos)

PoseKinds == {"none", "faint", "dim", "upper", "legs", "fullA", "fullB"}

\* catalogue geometry, in units: body height 61 (nose to ankles), shoulder
\* width 15, arm 13 (5-12-13); the left wrist swings between +5 and -5
BaseXY(kind) ==
    (LM_NOSE :> <<22, 2>>) @@
    (LM_LEFT_SHOULDER :> <<15, 10>>) @@ (LM_RIGHT_SHOULDER :> <<30, 10>>) @@
    (LM_LEFT_ELBOW :> <<13, 16>>) @@ (LM_RIGHT_ELBOW :> <<32, 16>>) @@
    (LM_LEFT_WRIST :> IF kind = "fullB" THEN <<10, 22>> ELSE <<20, 22>>) @@
    (LM_RIGHT_WRIST :> <<35, 22>>) @@
    (LM_LEFT_HIP :> <<17, 35>>) @@ (LM_RIGHT_HIP :> <<28, 35>>) @@
    (LM_LEFT_KNEE :> <<17, 50>>) @@ (LM_RIGHT_KNEE :> <<28, 50>>) @@
    (LM_LEFT_ANKLE :> <<17, 63>>) @@ (LM_RIGHT_ANKLE :> <<28, 63>>)

\* visibility of a landmark, in tenths
Visibility(kind, idx) ==
    CASE kind = "faint" -> 2
      [] kind = "dim" -> 4
      [] kind = "upper" ->
            IF idx \in {LM_LEFT_SHOULDER, LM_RIGHT_SHOULDER, LM_LEFT_ELBOW,
                        LM_RIGHT_ELBOW, LM_LEFT_WRIST, LM_RIGHT_WRIST}
            THEN 9 ELSE 2
      [] kind = "legs" ->
            IF idx \in {LM_NOSE, LM_LEFT_HIP, LM_RIGHT_HIP, LM_LEFT_KNEE,
                        LM_RIGHT_KNEE, LM_LEFT_ANKLE, LM_RIGHT_ANKLE}
            THEN 9 ELSE 2
      [] OTHER -> 9

\* landmarker.detect(image).pose_landmarks: None when no pose is found, else
\* the first pose's landmarks, each with normalized x, y and a visibility
Detect(frame, frame_w, frame_h) ==
    IF frame.pose = "none" THEN None
    ELSE Some([idx \in OVERLAY_LM_INDICES |->
                [x |-> Rat(BaseXY(frame.pose)[idx][1] * frame.scale, frame_w),
                 y |-> Rat(BaseXY(frame.pose)[idx][2] * frame.scale, frame_h),
                 visibility |-> Visibility(frame.pose, idx)]])

(***************************************************************************)
(* _load_video                                                             *)
(***************************************************************************)
\* fps = cap.get(CAP_PROP_FPS); if fps <= 0: fps = 30.0
LoadedFps(video) == IF video.fps <= 0 THEN 30 ELSE video.fps

\* frames taller than MAX_FRAME_HEIGHT are resized to (int(w * scale), 720)
LoadedWidth(video) ==
    IF video.h > MAX_FRAME_HEIGHT
    THEN RFloor(RMul(RInt(video.w), Rat(MAX_FRAME_HEIGHT, video.h)))
    ELSE video.w

LoadedHeight(video) ==
    IF video.h > MAX_FRAME_HEIGHT THEN MAX_FRAME_HEIGHT ELSE video.h

\* the exception _load_video raises, or "" when it returns
LoadError(video) ==
    IF ~video.openable THEN "CannotOpen"
    ELSE IF Len(video.frames) = 0 THEN "NoFrames"
    ELSE ""

\* the length check of analyze(): len(gray_frames) < 5
TooShort_Off(n) == n < MIN_FRAMES - 1

TooShort(n) == n < MIN_FRAMES

(***************************************************************************)
(* _run_pose_estimation                                                    *)
(***************************************************************************)
INTERNAL_SAMPLES == 50

OVERLAY_STEP == 3

InternalStep(total) == Max2(1, total \div INTERNAL_SAMPLES)

\* Python indices of the frames handed to the landmarker
FramesToDetect(total) ==
    {i \in 0..(total - 1) : i % InternalStep(total) = 0 \/ i % OVERLAY_STEP = 0}

\* the internal record of one detection: pixel coordinates of the internal
\* landmarks with visibility > 0.5, or None when fewer than 4 pass
InternalRecord(pose_lms, frame_w, frame_h) ==
    LET keep == {idx \in INTERNAL_LM_INDICES : pose_lms[idx].visibility > 5}
        landmarks == [idx \in keep |->
                        <<RMul(pose_lms[idx].x, RInt(frame_w)),
                          RMul(pose_lms[idx].y, RInt(frame_h))>>]
    IN  IF Cardinality(keep) >= 4 THEN Some(landmarks) ELSE None

\* the overlay record of one detection: normalized coordinates rounded to 4
\* decimals (in units of 0.0001) of the overlay landmarks with visibility > 0.3
OverlayRecord(pose_lms) ==
    LET keep == {idx \in OVERLAY_LM_INDICES : pose_lms[idx].visibility > 3}
        lm_dict == [idx \in keep |->
                        <<RoundTo(pose_lms[idx].x, 10000),
                          RoundTo(pose_lms[idx].y, 10000)>>]
    IN  IF Cardinality(keep) >= 4 THEN Some(lm_dict) ELSE None

\* raw_results before the forward fill
RawResults(frames, frame_w, frame_h) ==
    LET total == Len(frames)
    IN  [k \in 1..total |->
            LET i == k - 1
                d == Detect(frames[k], frame_w, frame_h)
            IN  IF i % InternalStep(total) = 0 /\ i \in FramesToDetect(total)
                   /\ ~IsNone(d)
                THEN InternalRecord(TheValue(d), frame_w, frame_h)
                ELSE None]

\* the first record present at or after index k, None if there is none
NextValid(raw, k) ==
    IF \E j \in k..Len(raw) : ~IsNone(raw[j])
    THEN raw[CHOOSE j \in k..Len(raw) :
                /\ ~IsNone(raw[j])
                /\ \A h \in k..(j - 1) : IsNone(raw[h])]
    ELSE None

RECURSIVE ForwardFill_Backward(_, _, _)
ForwardFill_Backward(raw, k, last_valid) ==
    IF k > Len(raw) THEN <<>>
    ELSE IF ~IsNone(raw[k])
         THEN <<raw[k]>> \o ForwardFill_Backward(raw, k + 1, raw[k])
    ELSE IF ~IsNone(last_valid)
         THEN <<last_valid>> \o ForwardFill_Backward(raw, k + 1, last_valid)
    ELSE <<NextValid(raw, k)>> \o ForwardFill_Backward(raw, k + 1, None)

\* the forward-fill loop: last_valid is carried from index to index
RECURSIVE ForwardFill(_, _, _)
ForwardFill(raw, k, last_valid) ==
    IF k > Len(raw) THEN <<>>
    ELSE IF ~IsNone(raw[k])
         THEN <<raw[k]>> \o ForwardFill(raw, k + 1, raw[k])
         ELSE <<last_valid>> \o ForwardFill(raw, k + 1, last_valid)

RECURSIVE CarriedForward(_, _, _)
CarriedForward(s, k, last) ==
    IF k > Len(s) THEN <<>>
    ELSE IF ~IsNone(s[k]) THEN <<s[k]>> \o CarriedForward(s, k + 1, s[k])
    ELSE <<last>> \o CarriedForward(s, k + 1, last)

OverlayFrames_Filled(frames, frame_w, frame_h) ==
    CarriedForward([k \in 1..Len(frames) |->
                        IF (k - 1) % OVERLAY_STEP = 0
                           /\ ~IsNone(Detect(frames[k], frame_w, frame_h))
                        THEN OverlayRecord(TheValue(Detect(frames[k], frame_w, frame_h)))
                        ELSE None], 1, None)

\* overlay_frames: a record at every OVERLAY_STEP-th index with a detection
OverlayFrames(frames, frame_w, frame_h) ==
    LET total == Len(frames)
    IN  [k \in 1..total |->
            LET i == k - 1
                d == Detect(frames[k], frame_w, frame_h)
            IN  IF i % OVERLAY_STEP = 0 /\ i \in FramesToDetect(total) /\ ~IsNone(d)
                THEN OverlayRecord(TheValue(d))
                ELSE None]

\* (raw_results, overlay_landmarks) of a call in which the landmarker works
RunPoseEstimation(frames, frame_w, frame_h) ==
    [raw_results |-> ForwardFill(RawResults(frames, frame_w, frame_h), 1, None),
     overlay |-> [step |-> OVERLAY_STEP,
                  frames |-> OverlayFrames(frames, frame_w, frame_h)]]

(***************************************************************************)
(* _compute_wrist_speed, _measure_body_from_pose                           *)
(***************************************************************************)
\* sqrt of a non-negative rational
RSqrt(a) == Rat(ISqrt(a[1] * a[2]), a[2])

RAbs(a) == <<Abs(a[1]), a[2]>>

RSub(a, b) == RAdd(a, <<-b[1], b[2]>>)

\* Euclidean distance of two pixel points
Dist(p, q) ==
    LET dx == RSub(p[1], q[1])
        dy == RSub(p[2], q[2])
    IN  RSqrt(RAdd(RMul(dx, dx), RMul(dy, dy)))

WRIST_WINDOW == 2

\* pixels per second of the faster wrist around the peak, or None
ComputeWristSpeed(pose_data, peak_idx, fps) ==
    LET start == Max2(0, peak_idx - WRIST_WINDOW)
        end == Min2(Len(pose_data) - 1, peak_idx + WRIST_WINDOW)
        lm_start == pose_data[start + 1]
        lm_end == pose_data[end + 1]
        dt == Rat(end - start, fps)
        Has(w) == w \in DOMAIN TheValue(lm_start) /\ w \in DOMAIN TheValue(lm_end)
        Speed(w) == RDiv(Dist(TheValue(lm_start)[w], TheValue(lm_end)[w]), dt)
    IN  IF start >= end THEN None
        ELSE IF IsNone(lm_start) \/ IsNone(lm_end) THEN None
        ELSE IF Has(LM_LEFT_WRIST) /\ Has(LM_RIGHT_WRIST)
             THEN Some(RMax(Speed(LM_LEFT_WRIST), Speed(LM_RIGHT_WRIST)))
        ELSE IF Has(LM_LEFT_WRIST) THEN Some(Speed(LM_LEFT_WRIST))
        ELSE IF Has(LM_RIGHT_WRIST) THEN Some(Speed(LM_RIGHT_WRIST))
        ELSE None

\* the height measurement of one record (a one-element list), or <<>>
HeightOf(landmarks) ==
    LET hasL == LM_LEFT_ANKLE \in DOMAIN landmarks
        hasR == LM_RIGHT_ANKLE \in DOMAIN landmarks
        ankle_y == IF hasL /\ hasR
                   THEN RDiv(RAdd(landmarks[LM_LEFT_ANKLE][2],
                                  landmarks[LM_RIGHT_ANKLE][2]), RInt(2))
                   ELSE IF hasL THEN landmarks[LM_LEFT_ANKLE][2]
                   ELSE landmarks[LM_RIGHT_ANKLE][2]
        h == RAbs(RSub(ankle_y, landmarks[LM_NOSE][2]))
    IN  IF (hasL \/ hasR) /\ LM_NOSE \in DOMAIN landmarks /\ RLt(RInt(10), h)
        THEN <<h>> ELSE <<>>

ShoulderWidthOf(landmarks) ==
    IF LM_LEFT_SHOULDER \in DOMAIN landmarks /\ LM_RIGHT_SHOULDER \in DOMAIN landmarks
       /\ RLt(RInt(5), Dist(landmarks[LM_LEFT_SHOULDER], landmarks[LM_RIGHT_SHOULDER]))
    THEN <<Dist(landmarks[LM_LEFT_SHOULDER], landmarks[LM_RIGHT_SHOULDER])>>
    ELSE <<>>

ArmLengthOf(landmarks, s_idx, w_idx) ==
    IF s_idx \in DOMAIN landmarks /\ w_idx \in DOMAIN landmarks
       /\ RLt(RInt(5), Dist(landmarks[s_idx], landmarks[w_idx]))
    THEN <<Dist(landmarks[s_idx], landmarks[w_idx])>>
    ELSE <<>>

RECURSIVE Heights(_)
Heights(pose_data) ==
    IF pose_data = <<>> THEN <<>>
    ELSE (IF IsNone(Head(pose_data)) THEN <<>>
          ELSE HeightOf(TheValue(Head(pose_data)))) \o Heights(Tail(pose_data))

RECURSIVE ShoulderWidths(_)
ShoulderWidths(pose_data) ==
    IF pose_data = <<>> THEN <<>>
    ELSE (IF IsNone(Head(pose_data)) THEN <<>>
          ELSE ShoulderWidthOf(TheValue(Head(pose_data))))
         \o ShoulderWidths(Tail(pose_data))

RECURSIVE ArmLengths(_)
ArmLengths(pose_data) ==
    IF pose_data = <<>> THEN <<>>
    ELSE (IF IsNone(Head(pose_data)) THEN <<>>
          ELSE ArmLengthOf(TheValue(Head(pose_data)), LM_LEFT_SHOULDER, LM_LEFT_WRIST)
               \o ArmLengthOf(TheValue(Head(pose_data)), LM_RIGHT_SHOULDER, LM_RIGHT_WRIST))
         \o ArmLengths(Tail(pose_data))

\* float(np.median(values)) under "if values:"; a missing key is None
MedianOrNone(values) == IF values = <<>> THEN None ELSE Some(Median(values))

\* the dict _measure_body_from_pose returns
MeasureBodyFromPose(pose_data) ==
    [height_px |-> MedianOrNone(Heights(pose_data)),
     shoulder_width_px |-> MedianOrNone(ShoulderWidths(pose_data)),
     arm_length_px |-> MedianOrNone(ArmLengths(pose_data))]

(***************************************************************************)
(* _find_peak_speed                                                        *)
(***************************************************************************)
ArgMax_Last(mags) ==
    CHOOSE i \in 0..(Len(mags) - 1) :
        /\ \A j \in 0..(Len(mags) - 1) : mags[j + 1] <= mags[i + 1]
        /\ \A j \in (i + 1)..(Len(mags) - 1) : mags[j + 1] < mags[i + 1]

\* numpy.argmax: the first index (Python, 0-based) of the maximum
ArgMax(mags) ==
    CHOOSE i \in 0..(Len(mags) - 1) :
        /\ \A j \in 0..(Len(mags) - 1) : mags[j + 1] <= mags[i + 1]
        /\ \A j \in 0..(i - 1) : mags[j + 1] < mags[i + 1]

PEAK_WINDOW == 2

SmoothedPeak_Sum(flow_magnitudes, peak_idx) ==
    SumSeq([k \in 1..(Min2(Len(flow_magnitudes), peak_idx + PEAK_WINDOW + 1)
                      - Max2(0, peak_idx - PEAK_WINDOW)) |->
            RInt(flow_magnitudes[Max2(0, peak_idx - PEAK_WINDOW) + k])])

\* mean(flow_magnitudes[start:end]) around peak_idx, window clamped to the list
SmoothedPeak(flow_magnitudes, peak_idx) ==
    Mean([k \in 1..(Min2(Len(flow_magnitudes), peak_idx + PEAK_WINDOW + 1)
                    - Max2(0, peak_idx - PEAK_WINDOW)) |->
            RInt(flow_magnitudes[Max2(0, peak_idx - PEAK_WINDOW) + k])])

PeakAt_Min(flow_magnitudes, peak_idx) ==
    [final_peak |-> RMin(RInt(flow_magnitudes[peak_idx + 1]),
                         SmoothedPeak(flow_magnitudes, peak_idx)),
     peak_idx |-> peak_idx,
     raw |-> RInt(flow_magnitudes[peak_idx + 1]),
     smoothed |-> SmoothedPeak(flow_magnitudes, peak_idx)]

\* final_peak = max(peak_mag, smoothed_peak)
PeakAt(flow_magnitudes, peak_idx) ==
    [final_peak |-> RMax(RInt(flow_magnitudes[peak_idx + 1]),
                         SmoothedPeak(flow_magnitudes, peak_idx)),
     peak_idx |-> peak_idx,
     raw |-> RInt(flow_magnitudes[peak_idx + 1]),
     smoothed |-> SmoothedPeak(flow_magnitudes, peak_idx)]

FindPeakSpeed(flow_magnitudes) == PeakAt(flow_magnitudes, ArgMax(flow_magnitudes))

(***************************************************************************)
(* _auto_calibrate, _fuse_estimates                                        *)
(***************************************************************************)
\* the reference length argument: None, or a number
NoRef == [given |-> FALSE, val |-> 0]

RefOf(v) == [given |-> TRUE, val |-> v]

\* stick_cm = reference_length_cm or STICK_LENGTH_CM (0 is falsy)
StickCm_Ignored(ref) == STICK_LENGTH_CM

StickCm(ref) == IF ref.given /\ ref.val # 0 THEN ref.val ELSE STICK_LENGTH_CM

Estimate(name, cm, w) == [name |-> name, cm |-> cm, w |-> w]

W_POSE_HEIGHT == 92

W_POSE_SHOULDER == 80

W_POSE_ARM == 75

W_STICK_FLOW == 85

W_STICK_RIDGE == 70

W_STICK_EDGE == 60

W_PLAYER_SILHOUETTE == 40

PoseNames == {"pose_height", "pose_shoulder", "pose_arm"}

\* a pose-based estimate: "key in body and body[key] > 0"
PoseEstimate(name, ref_cm, m, w) ==
    IF ~IsNone(m) /\ RLt(RZero, TheValue(m))
    THEN <<Estimate(name, RDiv(RInt(ref_cm), TheValue(m)), w)>> ELSE <<>>

\* a stick-based estimate: "if stick_px" (0 is None)
StickEstimate(name, stick_cm, px, w) ==
    IF px # 0 THEN <<Estimate(name, Rat(stick_cm, px), w)>> ELSE <<>>

\* methods 1 to 4
BodyAndStickEstimates(body, stick_cm, det) ==
    PoseEstimate("pose_height", PLAYER_HEIGHT_CM, body.height_px, W_POSE_HEIGHT)
    \o PoseEstimate("pose_shoulder", SHOULDER_WIDTH_CM, body.shoulder_width_px,
                    W_POSE_SHOULDER)
    \o PoseEstimate("pose_arm", ARM_LENGTH_CM, body.arm_length_px, W_POSE_ARM)
    \o StickEstimate("stick_flow", stick_cm, det.stick_flow_px, W_STICK_FLOW)
    \o StickEstimate("stick_ridge", stick_cm, det.stick_ridge_px, W_STICK_RIDGE)
    \o StickEstimate("stick_edge", stick_cm, det.stick_edge_px, W_STICK_EDGE)

\* method 5, only when no estimate is pose-based
WithSilhouette(upto4, det) ==
    IF \E k \in 1..Len(upto4) : upto4[k].name \in PoseNames THEN upto4
    ELSE IF det.player_px # 0
         THEN upto4 \o <<Estimate("player_silhouette",
                                  Rat(PLAYER_HEIGHT_CM, det.player_px),
                                  W_PLAYER_SILHOUETTE)>>
    ELSE upto4

\* the estimates list in the order _auto_calibrate appends to it; det holds
\* the detector outputs in pixels (0 is None)
Estimates(ref, pose_data, det) ==
    WithSilhouette(BodyAndStickEstimates(MeasureBodyFromPose(pose_data), StickCm(ref),
                                         det), det)

\* list.sort(key=weight, reverse=True): stable, heaviest first
RECURSIVE InsertByWeight(_, _)
InsertByWeight(e, s) ==
    IF s = <<>> THEN <<e>>
    ELSE IF Head(s).w < e.w THEN <<e>> \o s
    ELSE <<Head(s)>> \o InsertByWeight(e, Tail(s))

\* the same sort without reverse=True: lightest first
RECURSIVE InsertByWeightAsc(_, _)
InsertByWeightAsc(e, s) ==
    IF s = <<>> THEN <<e>>
    ELSE IF Head(s).w > e.w THEN <<e>> \o s
    ELSE <<Head(s)>> \o InsertByWeightAsc(e, Tail(s))

RECURSIVE SortByWeightAsc(_)
SortByWeightAsc(s) ==
    IF s = <<>> THEN <<>>
    ELSE InsertByWeightAsc(s[Len(s)], SortByWeightAsc(SubSeq(s, 1, Len(s) - 1)))

RECURSIVE SortByWeightDesc(_)
SortByWeightDesc(s) ==
    IF s = <<>> THEN <<>>
    ELSE InsertByWeight(s[Len(s)], SortByWeightDesc(SubSeq(s, 1, Len(s) - 1)))

CmValues(estimates) == [k \in 1..Len(estimates) |-> estimates[k].cm]

\* 0.7 < e[1] / median_cm < 1.3  (median_cm # 0)
Agrees(e, median_cm) ==
    LET q == RDiv(e.cm, median_cm)
    IN  RLt(Rat(7, 10), q) /\ RLt(q, Rat(13, 10))

RECURSIVE Filter(_, _)
Filter(s, median_cm) ==
    IF s = <<>> THEN <<>>
    ELSE (IF Agrees(Head(s), median_cm) THEN <<Head(s)>> ELSE <<>>)
         \o Filter(Tail(s), median_cm)

RECURSIVE WeightedSum(_)
WeightedSum(s) ==
    IF s = <<>> THEN RZero
    ELSE RAdd(RMul(Head(s).cm, RInt(Head(s).w)), WeightedSum(Tail(s)))

RECURSIVE TotalWeight(_)
TotalWeight(s) == IF s = <<>> THEN 0 ELSE Head(s).w + TotalWeight(Tail(s))

Calibration(cm, method) == [ok |-> TRUE, cm |-> cm, method |-> method]

\* an exception raised inside the calibration
CalibrationError(what) == [ok |-> FALSE, cm |-> RZero, method |-> what]

\* the branch of _fuse_estimates taken once the agreeing estimates are known
FuseAgreeing(primary, agreeing) ==
    IF Len(agreeing) >= 2
    THEN Calibration(RDiv(WeightedSum(agreeing), RInt(TotalWeight(agreeing))),
                     primary.name)
    ELSE Calibration(primary.cm, primary.name)

\* the "len(estimates) >= 2" branch; dividing by a zero median raises
FuseByMedian(sorted, median_cm) ==
    IF median_cm = RZero THEN CalibrationError("ZeroDivisionError")
    ELSE FuseAgreeing(sorted[1], Filter(sorted, median_cm))

\* _fuse_estimates after the sort
FuseSorted(sorted) ==
    IF Len(sorted) >= 2 THEN FuseByMedian(sorted, Median(CmValues(sorted)))
    ELSE Calibration(sorted[1].cm, sorted[1].name)

\* _fuse_estimates on a non-empty list
FuseEstimates(estimates) == FuseSorted(SortByWeightDesc(estimates))

\* the tail of _auto_calibrate: the fallback on an empty list, else the fusion
CalibrateFrom(estimates, frame_w, stick_cm) ==
    IF estimates = <<>>
    THEN Calibration(RDiv(RInt(stick_cm), Rat(frame_w * STICK_WIDTH_RATIO_FALLBACK, 100)),
                     "fallback")
    ELSE FuseEstimates(estimates)

\* _auto_calibrate: (cm_per_pixel, method_name)
AutoCalibrate(frame_w, ref, pose_data, det) ==
    CalibrateFrom(Estimates(ref, pose_data, det), frame_w, StickCm(ref))

(***************************************************************************)
(* Speed synthesis (analyze) and _calculate_confidence                     *)
(***************************************************************************)
\* speed_cm_per_sec of analyze(): lever ratio 1.7, blend 0.6 / 0.4
SpeedCmPerSec(peak_magnitude, fps, cm_per_pixel, wrist_speed_px) ==
    LET flow_speed_cm == RMul(RMul(peak_magnitude, RInt(fps)), cm_per_pixel)
    IN  IF ~IsNone(wrist_speed_px)
        THEN LET pose_speed_cm ==
                    RMul(RMul(TheValue(wrist_speed_px), Rat(17, 10)), cm_per_pixel)
             IN  RAdd(RMul(flow_speed_cm, Rat(6, 10)), RMul(pose_speed_cm, Rat(4, 10)))
        ELSE flow_speed_cm

\* speed_kmh = round(speed_cm_per_sec * 0.036, 1), in tenths of a km/h
SpeedKmh(speed_cm_per_sec) == RoundTo(RMul(speed_cm_per_sec, Rat(36, 1000)), 10)

\* speed_mph = round(speed_kmh * 0.621371, 1), in tenths of a mph
SpeedMph(speed_kmh) == RoundTo(Rat(speed_kmh * 621371, 1000000), 1)

\* one element of frame_speeds_kmh, in hundredths of a km/h
FrameSpeedKmh(mag, fps, cm_per_pixel) ==
    RoundTo(RMul(RMul(RMul(RInt(mag), RInt(fps)), cm_per_pixel), Rat(36, 1000)), 100)

FrameSpeedsKmh(flow_magnitudes, fps, cm_per_pixel) ==
    [k \in 1..Len(flow_magnitudes) |->
        FrameSpeedKmh(flow_magnitudes[k], fps, cm_per_pixel)]

Clamp01(a) == RMin(ROne, RMax(RZero, a))

\* peak distinctness
PeakScore(flow_magnitudes, peak_idx) ==
    LET mean_mag == Mean([k \in 1..Len(flow_magnitudes) |-> RInt(flow_magnitudes[k])])
        peak_mag == RInt(flow_magnitudes[peak_idx + 1])
    IN  IF RLt(RZero, mean_mag)
        THEN RMax(RZero, RMin(ROne, RDiv(RSub(RDiv(peak_mag, mean_mag), ROne), RInt(4))))
        ELSE RZero

\* method_scores.get(cal_method, 0.15), in hundredths
MethodScore(cal_method) ==
    CASE cal_method = "pose_height" -> 95
      [] cal_method = "pose_shoulder" -> 85
      [] cal_method = "pose_arm" -> 80
      [] cal_method = "stick_flow" -> 75
      [] cal_method = "stick_ridge" -> 65
      [] cal_method = "stick_edge" -> 55
      [] cal_method = "player_silhouette" -> 40
      [] cal_method = "fallback" -> 15
      [] OTHER -> 15

\* calibration quality
CalScore(cal_method, reference_provided) ==
    IF reference_provided
    THEN RMin(ROne, Rat(MethodScore(cal_method) + 5, 100))
    ELSE Rat(MethodScore(cal_method), 100)

\* video quality
VidScore(fps, frame_count, frame_height) ==
    LET a == IF frame_count >= 30 THEN 33 ELSE IF frame_count >= 10 THEN 15 ELSE 0
        b == IF fps >= 30 THEN 34 ELSE IF fps >= 15 THEN 17 ELSE 0
        c == IF frame_height >= 480 THEN 33 ELSE IF frame_height >= 240 THEN 15 ELSE 0
    IN  RMin(ROne, Rat(a + b + c, 100))

Detected(pose_data) == Cardinality({k \in 1..Len(pose_data) : ~IsNone(pose_data[k])})

\* pose detection quality ("if pose_data:" is the truth value of the list)
PoseScore(pose_data, has_wrist_speed) ==
    IF Len(pose_data) > 0
    THEN LET pose_ratio == Rat(Detected(pose_data), Len(pose_data))
             base == RMin(ROne, RMul(pose_ratio, Rat(15, 10)))
         IN  IF has_wrist_speed THEN RMin(ROne, RAdd(base, Rat(2, 10))) ELSE base
    ELSE RZero

\* the weighted sum with the pose term dropped and the other three weights
\* renormalised when there is no pose score
WeightedScore_Renormalised(peak_score, cal_score, vid_score, pose_score) ==
    IF pose_score = RZero
    THEN RAdd(RAdd(RMul(Rat(40, 100), peak_score), RMul(Rat(40, 100), cal_score)),
              RMul(Rat(20, 100), vid_score))
    ELSE RAdd(RAdd(RMul(Rat(30, 100), peak_score), RMul(Rat(35, 100), cal_score)),
              RAdd(RMul(Rat(15, 100), vid_score), RMul(Rat(20, 100), pose_score)))

\* 0.30 * peak_score + 0.35 * cal_score + 0.15 * vid_score + 0.20 * pose_score
WeightedScore(peak_score, cal_score, vid_score, pose_score) ==
    RAdd(RAdd(RMul(Rat(30, 100), peak_score), RMul(Rat(35, 100), cal_score)),
         RAdd(RMul(Rat(15, 100), vid_score), RMul(Rat(20, 100), pose_score)))

\* _calculate_confidence, in hundredths
CalculateConfidence(flow_magnitudes, peak_idx, cal_method, reference_provided, fps, frame_count, frame_height, pose_data, has_wrist_speed) ==
    RoundTo(Clamp01(WeightedScore(PeakScore(flow_magnitudes, peak_idx),
                                  CalScore(cal_method, reference_provided),
                                  VidScore(fps, frame_count, frame_height),
                                  PoseScore(pose_data, has_wrist_speed))), 100)

(***************************************************************************)
(* The progress sink                                                       *)
(*   "none"  on_progress is None                                           *)
(*   "app"   run_analysis.on_progress: send_progress posts the percentage  *)
(*           and swallows every exception of the post                      *)
(*   "raw"   a callable handed to analyze() directly; it may raise         *)
(***************************************************************************)
SinkKinds == {"none", "app", "raw"}

\* what one invocation of the sink can do
SinkOutcomes(kind) == IF kind = "none" THEN {"ok"} ELSE {"ok", "fail"}

\* whether the invocation raises into its caller
SinkRaises(kind, o) == kind = "raw" /\ o = "fail"

\* pct = 15 + int((i + 1) / total * 60) of _compute_optical_flows
FlowProgressPct(i, total) == 15 + ((i + 1) * 60) \div total

(***************************************************************************)
(* State                                                                   *)
(***************************************************************************)
VARIABLES
    entry,            \* which method the caller invokes
    video,            \* the video file at video_path
    ref,              \* reference_length_cm
    sink,             \* on_progress
    pc,               \* position in analyze()
    landmarker,       \* self._landmarker is not None
    frames,           \* gray_frames / rgb_frames (parallel lists)
    fps,
    frame_w,
    frame_h,
    pose_data,
    overlay_landmarks,
    flow_magnitudes,
    i,                \* loop index of _compute_optical_flows
    peak,             \* (peak_magnitude, peak_idx) of _find_peak_speed
    wrist_speed_px,
    cal,              \* (cm_per_pixel, cal_method)
    out,              \* speed_kmh, speed_mph, confidence, frame_speeds_kmh
    err,              \* the exception that ended the call, "" if none
    progress,         \* last percentage the sink took
    sinkFailed,       \* some invocation of the sink failed
    steps,            \* the pipeline stages started so far
    req,              \* service: what each thread was asked to do
    tpc,              \* service: each thread's position
    shared_landmarker, \* service: analyzer._landmarker (0 is None, else a handle)
    created,          \* service: landmarkers constructed so far
    handle,           \* service: the landmarker each call works with (0: none yet)
    result,           \* service: how each thread's analyze() call ended
    sent,             \* service: the payload each thread posted to callback_url
    posts             \* service: callback POST attempts of each thread

\* the state of the service of app.py
service == <<req, tpc, shared_landmarker, created, handle, result, sent, posts>>

vars == <<entry, video, ref, sink, pc, landmarker, frames, fps, frame_w, frame_h,
          pose_data, overlay_landmarks, flow_magnitudes, i, peak, wrist_speed_px,
          cal, out, err, progress, sinkFailed, steps, service>>

inputs == <<entry, video, ref, sink>>

NoPeak == [final_peak |-> RZero, peak_idx |-> 0, raw |-> RZero, smoothed |-> RZero]

NoCal == [ok |-> TRUE, cm |-> RZero, method |-> ""]

NoOverlay == [step |-> OVERLAY_STEP, frames |-> <<>>]

Frame(pos, pose, scale) == [pos |-> pos, pose |-> pose, scale |-> scale]

NoDetections ==
    [stick_flow_px |-> 0, stick_ridge_px |-> 0, stick_edge_px |-> 0, player_px |-> 0]

Video(openable, f, w, h, fs, det) ==
    [openable |-> openable, fps |-> f, w |-> w, h |-> h, frames |-> fs, det |-> det]

Input(e, v, r, s) == [entry |-> e, video |-> v, ref |-> r, sink |-> s]

(***************************************************************************)
(* The inputs the model explores                                           *)
(***************************************************************************)
\* frame counts up to MaxFrames are explored exhaustively
MaxFrames == 6

\* per-pair displacements of the moving object
MoveSet == {0, 1, 3}

\* a few longer videos, for the frame-count tiers of the video-quality score
LongFrameCounts == {10, 30}

\* the frames of a video from its per-pair displacements: n frames, n - 1 moves
FramesOf(n, moves, poses, scale) ==
    LET PosAt[k \in 1..n] == IF k = 1 THEN 0 ELSE PosAt[k - 1] + moves[k - 1]
    IN  [k \in 1..n |-> Frame(PosAt[k], poses[k], scale)]

\* a swing: the object accelerates to a peak at pair 2 and stops
Swing(n) == [k \in 1..n |-> CASE k = 1 -> 1 [] k = 2 -> 2 [] k = 3 -> 4 [] k = 4 -> 1
                                 [] OTHER -> 0]

\* nothing moves
Static(n) == [k \in 1..n |-> 0]

\* one sudden displacement
Burst(n) == [k \in 1..n |-> IF k = 3 THEN 8 ELSE 0]

Uniform(n, kind) == [k \in 1..n |-> kind]

\* control flow: every frame count from 0 to MaxFrames, an unopenable file,
\* every kind of progress sink
ControlInputs ==
    {Input("analyze", v, NoRef, s) :
        v \in {Video(FALSE, 30, 320, 240, <<>>, NoDetections)}
              \cup {Video(TRUE, 30, 320, 240,
                          FramesOf(n, Swing(n), Uniform(n, "fullA"), 3), NoDetections)
                        : n \in 0..MaxFrames},
        s \in SinkKinds}

\* motion: every displacement series of every length, through analyze() and
\* through a direct call of _compute_optical_flows
FlowInputs ==
    UNION {{Input(e, Video(TRUE, 30, 320, 240, FramesOf(n, m, Uniform(n, "none"), 1),
                           NoDetections), NoRef, "none") :
                e \in {"analyze", "flows", "peak"}, m \in [1..(n - 1) -> MoveSet]}
           : n \in 1..MaxFrames}

\* a displacement whose multiples need more than FloatBits bits, so that the
\* float sum of a window rounds
CoarseMoveSet == {0, 2 * Pow2(FloatBits - 1) - 6}

\* motion whose window sums round, through analyze() and through a direct
\* call of _find_peak_speed
RoundingInputs ==
    UNION {{Input(e, Video(TRUE, 30, 320, 240, FramesOf(n, m, Uniform(n, "none"), 1),
                           NoDetections), NoRef, "none") :
                e \in {"analyze", "peak"}, m \in [1..(n - 1) -> CoarseMoveSet]}
           : n \in 2..MaxFrames}

PoseTrackKinds == {"none", "dim", "fullA", "fullB"}

\* pose: every pose track of a shortest accepted video
PoseInputs ==
    {Input("analyze", Video(TRUE, 30, 320, 240,
                            FramesOf(MIN_FRAMES, Swing(MIN_FRAMES), t, 3),
                            NoDetections), NoRef, "none") :
        t \in [1..MIN_FRAMES -> PoseTrackKinds]}

\* a video of n frames whose first frames show the poses of t, the rest none
TrackVideo(n, t) ==
    Video(TRUE, 30, 320, 240,
          FramesOf(n, Static(n), [k \in 1..n |-> IF k <= Len(t) THEN t[k] ELSE "none"],
                   3), NoDetections)

\* direct calls of _run_pose_estimation: every pose track of every length
\* up to MaxFrames, and videos long enough for an internal step of 2
\* (2 * INTERNAL_SAMPLES frames) with every pose track on the first frames
PoseCallInputs ==
    UNION {{Input("pose", TrackVideo(n, t), NoRef, "none") :
                t \in [1..n -> {"none", "dim", "fullA"}]} : n \in 1..MaxFrames}
    \cup {Input("pose", TrackVideo(2 * INTERNAL_SAMPLES, t), NoRef, "none") :
                t \in [1..4 -> {"none", "fullA", "fullB"}]}

RefSet == {NoRef, RefOf(0), RefOf(310), RefOf(-155)}

DetSet ==
    [stick_flow_px : {0, 155}, stick_ridge_px : {0, 52, 155},
     stick_edge_px : {0, 31, 155}, player_px : {0, 61, 183}]

\* calibration: every combination of detector outputs, pose measurements
\* and reference lengths
CalibrationInputs ==
    {Input("analyze", Video(TRUE, 30, 320, 240,
                            FramesOf(MIN_FRAMES, Swing(MIN_FRAMES),
                                     Uniform(MIN_FRAMES, k), sc), d), r, "none") :
        k \in {"none", "upper", "legs", "fullA"}, sc \in {1, 3}, d \in DetSet,
        r \in RefSet}

\* video quality: the tiers of frame count, fps and frame height
QualityInputs ==
    {Input("analyze", Video(TRUE, f, wh[1], wh[2],
                            FramesOf(n, m, Uniform(n, k), 1), NoDetections), r, "none") :
        f \in {0, 10, 15},
        wh \in {<<160, 120>>, <<320, 240>>, <<640, 480>>, <<1920, 1440>>},
        n \in {MIN_FRAMES} \cup LongFrameCounts,
        m \in {Static(30), Swing(30), Burst(30)},
        k \in {"none", "dim", "legs", "fullA"},
        r \in {NoRef, RefOf(155)}}

Inputs == ControlInputs \cup FlowInputs \cup RoundingInputs \cup PoseInputs
          \cup PoseCallInputs \cup CalibrationInputs \cup QualityInputs

NoOut ==
    [speed_cm_per_sec |-> RZero, speed_kmh |-> 0, speed_mph |-> 0,
     confidence |-> 0, frame_speeds_kmh |-> <<>>]

\* the threads of the service
Threads == {"t1", "t2"}

NoRequest == [via |-> "none"]

NoResult == [state |-> "none", error |-> ""]

NoPayload == [posted |-> FALSE]

\* no thread is running
ServiceIdle ==
    /\ tpc = [t \in Threads |-> "off"]
    /\ shared_landmarker = 0
    /\ created = 0
    /\ handle = [t \in Threads |-> 0]
    /\ result = [t \in Threads |-> NoResult]
    /\ sent = [t \in Threads |-> NoPayload]
    /\ posts = [t \in Threads |-> 0]

\* the locals of a call of analyze() that has not started
CallLocals ==
    /\ pc = "start"
    /\ landmarker = FALSE
    /\ frames = <<>>
    /\ fps = 0
    /\ frame_w = 0
    /\ frame_h = 0
    /\ pose_data = <<>>
    /\ overlay_landmarks = NoOverlay
    /\ flow_magnitudes = <<>>
    /\ i = 0
    /\ peak = NoPeak
    /\ wrist_speed_px = None
    /\ cal = NoCal
    /\ out = NoOut
    /\ err = ""
    /\ progress = 0
    /\ sinkFailed = FALSE
    /\ steps = {}

Init ==
    /\ \E inp \in Inputs :
        /\ entry = inp.entry
        /\ video = inp.video
        /\ ref = inp.ref
        /\ sink = inp.sink
    /\ req = [t \in Threads |-> NoRequest]
    /\ ServiceIdle
    /\ CallLocals

(***************************************************************************)
(* Actions                                                                 *)
(***************************************************************************)
\* one invocation of the sink with percentage pct and outcome o
Reported(pct, o) ==
    /\ sinkFailed' = (sinkFailed \/ (sink # "none" /\ o = "fail"))
    /\ progress' = IF sink # "none" /\ o = "ok" THEN pct ELSE progress

\* an exception leaves analyze()
Raise(what) ==
    /\ pc' = "failed"
    /\ err' = what

\* report(5); _load_video; the length check
Begin ==
    /\ pc = "start"
    /\ entry = "analyze"
    /\ \E o \in SinkOutcomes(sink) :
        /\ Reported(5, o)
        /\ IF SinkRaises(sink, o)
           THEN /\ Raise("ProgressSinkError")
                /\ UNCHANGED <<frames, fps, frame_w, frame_h, steps>>
           ELSE /\ steps' = steps \cup {"load"}
                /\ IF LoadError(video) # ""
                   THEN /\ Raise(LoadError(video))
                        /\ UNCHANGED <<frames, fps, frame_w, frame_h>>
                   ELSE /\ frames' = video.frames
                        /\ fps' = LoadedFps(video)
                        /\ frame_w' = LoadedWidth(video)
                        /\ frame_h' = LoadedHeight(video)
                        /\ IF TooShort(Len(video.frames))
                           THEN Raise("TooShort")
                           ELSE pc' = "pose" /\ err' = err
    /\ UNCHANGED <<inputs, service, landmarker, pose_data, overlay_landmarks, flow_magnitudes,
                   i, peak, wrist_speed_px, cal, out>>

\* report(10); _run_pose_estimation.  The landmarker is created on first
\* use; creating it, or detect on some frame, may raise.
PoseStage ==
    /\ pc = "pose"
    /\ \E o \in SinkOutcomes(sink), p \in {"ok", "create_fails", "detect_fails"} :
        /\ Reported(10, o)
        /\ IF SinkRaises(sink, o)
           THEN /\ p = "ok"
                /\ Raise("ProgressSinkError")
                /\ UNCHANGED <<landmarker, pose_data, overlay_landmarks, steps>>
           ELSE /\ steps' = steps \cup {"pose"}
                /\ (p = "create_fails") => ~landmarker
                /\ landmarker' = (landmarker \/ p # "create_fails")
                /\ IF p = "ok"
                   THEN /\ \E r \in {RunPoseEstimation(frames, frame_w, frame_h)} :
                                /\ pose_data' = r.raw_results
                                /\ overlay_landmarks' = r.overlay
                        /\ pc' = "flows"
                        /\ err' = err
                   ELSE /\ Raise(IF p = "create_fails" THEN "LandmarkerCreateError"
                                 ELSE "DetectError")
                        /\ UNCHANGED <<pose_data, overlay_landmarks>>
    /\ UNCHANGED <<inputs, service, frames, fps, frame_w, frame_h, flow_magnitudes, i, peak,
                   wrist_speed_px, cal, out>>

\* a direct call of _run_pose_estimation(rgb_frames) on the decoded frames
PoseDirect ==
    /\ pc = "start"
    /\ entry = "pose"
    /\ frames' = video.frames
    /\ frame_w' = LoadedWidth(video)
    /\ frame_h' = LoadedHeight(video)
    /\ steps' = steps \cup {"pose"}
    /\ \E p \in {"ok", "create_fails", "detect_fails"} :
        /\ (p = "create_fails") => ~landmarker
        /\ landmarker' = (landmarker \/ p # "create_fails")
        /\ IF p = "ok"
           THEN /\ \E r \in {RunPoseEstimation(video.frames, LoadedWidth(video),
                                               LoadedHeight(video))} :
                        /\ pose_data' = r.raw_results
                        /\ overlay_landmarks' = r.overlay
                /\ pc' = "posed"
                /\ err' = err
           ELSE /\ Raise(IF p = "create_fails" THEN "LandmarkerCreateError"
                         ELSE "DetectError")
                /\ UNCHANGED <<pose_data, overlay_landmarks>>
    /\ UNCHANGED <<inputs, service, fps, flow_magnitudes, i, peak, wrist_speed_px, cal, out,
                   progress, sinkFailed>>

\* report(15); entry of _compute_optical_flows
FlowsEnter ==
    /\ pc = "flows"
    /\ \E o \in SinkOutcomes(sink) :
        /\ Reported(15, o)
        /\ IF SinkRaises(sink, o)
           THEN /\ Raise("ProgressSinkError")
                /\ UNCHANGED <<flow_magnitudes, i, steps>>
           ELSE /\ steps' = steps \cup {"flows"}
                /\ flow_magnitudes' = <<>>
                /\ i' = 0
                /\ pc' = "flow_loop"
                /\ err' = err
    /\ UNCHANGED <<inputs, service, landmarker, frames, fps, frame_w, frame_h, pose_data,
                   overlay_landmarks, peak, wrist_speed_px, cal, out>>

\* a direct call of _compute_optical_flows(frames, on_progress)
FlowsEnterDirect ==
    /\ pc = "start"
    /\ entry \in {"flows", "peak"}
    /\ frames' = video.frames
    /\ flow_magnitudes' = <<>>
    /\ i' = 0
    /\ steps' = steps \cup {"flows"}
    /\ pc' = "flow_loop"
    /\ UNCHANGED <<inputs, service, landmarker, fps, frame_w, frame_h, pose_data,
                   overlay_landmarks, peak, wrist_speed_px, cal, out, err, progress,
                   sinkFailed>>

\* the magnitude of the pair the loop is at (Python index i)
PairMagnitude_Shifted(fs, k) == Farneback(fs[k + 1], fs[Min2(Len(fs), k + 3)])

PairMagnitude(fs, k) == Farneback(fs[k + 1], fs[k + 2])

\* one iteration of the loop of _compute_optical_flows
FlowStep ==
    /\ pc = "flow_loop"
    /\ i < Len(frames) - 1
    /\ flow_magnitudes' = Append(flow_magnitudes, PairMagnitude(frames, i))
    /\ i' = i + 1
    /\ \E o \in SinkOutcomes(sink) :
        /\ Reported(FlowProgressPct(i, Len(frames) - 1), o)
        /\ IF SinkRaises(sink, o)
           THEN Raise("ProgressSinkError")
           ELSE pc' = pc /\ err' = err
    /\ UNCHANGED <<inputs, service, landmarker, frames, fps, frame_w, frame_h, pose_data,
                   overlay_landmarks, peak, wrist_speed_px, cal, out, steps>>

\* the direct call returns its list
FlowsReturnDirect ==
    /\ pc = "flow_loop"
    /\ entry \in {"flows", "peak"}
    /\ i >= Len(frames) - 1
    /\ pc' = "returned"
    /\ UNCHANGED <<inputs, service, landmarker, frames, fps, frame_w, frame_h, pose_data,
                   overlay_landmarks, flow_magnitudes, i, peak, wrist_speed_px, cal,
                   out, err, progress, sinkFailed, steps>>

\* a direct call of _find_peak_speed on the list the direct call of
\* _compute_optical_flows returned; numpy.argmax raises on an empty list
FindPeakDirect ==
    /\ pc = "returned"
    /\ entry = "peak"
    /\ IF flow_magnitudes = <<>>
       THEN /\ Raise("EmptySeries")
            /\ UNCHANGED <<peak, steps>>
       ELSE /\ peak' = FindPeakSpeed(flow_magnitudes)
            /\ steps' = steps \cup {"peak"}
            /\ pc' = "peaked"
            /\ err' = err
    /\ UNCHANGED <<inputs, service, landmarker, frames, fps, frame_w, frame_h, pose_data,
                   overlay_landmarks, flow_magnitudes, i, wrist_speed_px, cal, out,
                   progress, sinkFailed>>

\* _compute_optical_flows returns; report(75); _find_peak_speed;
\* _compute_wrist_speed
PeakStage ==
    /\ pc = "flow_loop"
    /\ entry = "analyze"
    /\ i >= Len(frames) - 1
    /\ \E o \in SinkOutcomes(sink) :
        /\ Reported(75, o)
        /\ IF SinkRaises(sink, o)
           THEN /\ Raise("ProgressSinkError")
                /\ UNCHANGED <<peak, wrist_speed_px, steps>>
           ELSE /\ steps' = steps \cup {"peak", "wrist"}
                /\ \E pk \in {FindPeakSpeed(flow_magnitudes)} :
                        /\ peak' = pk
                        /\ wrist_speed_px' = ComputeWristSpeed(pose_data, pk.peak_idx, fps)
                /\ pc' = "calibrate"
                /\ err' = err
    /\ UNCHANGED <<inputs, service, landmarker, frames, fps, frame_w, frame_h, pose_data,
                   overlay_landmarks, flow_magnitudes, i, cal, out>>

\* report(80); _auto_calibrate
CalibrateStage ==
    /\ pc = "calibrate"
    /\ \E o \in SinkOutcomes(sink) :
        /\ Reported(80, o)
        /\ IF SinkRaises(sink, o)
           THEN /\ Raise("ProgressSinkError")
                /\ UNCHANGED <<cal, steps>>
           ELSE /\ steps' = steps \cup {"calibrate"}
                /\ \E c \in {AutoCalibrate(frame_w, ref, pose_data, video.det)} :
                        /\ cal' = c
                        /\ IF c.ok THEN pc' = "speed" /\ err' = err
                           ELSE Raise(c.method)
    /\ UNCHANGED <<inputs, service, landmarker, frames, fps, frame_w, frame_h, pose_data,
                   overlay_landmarks, flow_magnitudes, i, peak, wrist_speed_px, out>>

\* the values analyze() computes between report(90) and report(95)
SynthesisOf(speed_cm_per_sec) ==
    [speed_cm_per_sec |-> speed_cm_per_sec,
     speed_kmh |-> SpeedKmh(speed_cm_per_sec),
     speed_mph |-> SpeedMph(SpeedKmh(speed_cm_per_sec)),
     confidence |->
        CalculateConfidence(flow_magnitudes, peak.peak_idx, cal.method, ref.given,
                            fps, Len(frames), frame_h, pose_data,
                            ~IsNone(wrist_speed_px)),
     frame_speeds_kmh |-> FrameSpeedsKmh(flow_magnitudes, fps, cal.cm)]

Synthesis == SynthesisOf(SpeedCmPerSec(peak.final_peak, fps, cal.cm, wrist_speed_px))

\* report(90); speed synthesis; _calculate_confidence
SpeedStage ==
    /\ pc = "speed"
    /\ \E o \in SinkOutcomes(sink) :
        /\ Reported(90, o)
        /\ IF SinkRaises(sink, o)
           THEN /\ Raise("ProgressSinkError")
                /\ UNCHANGED <<out, steps>>
           ELSE /\ steps' = steps \cup {"speed", "confidence"}
                /\ out' = Synthesis
                /\ pc' = "finish"
                /\ err' = err
    /\ UNCHANGED <<inputs, service, landmarker, frames, fps, frame_w, frame_h, pose_data,
                   overlay_landmarks, flow_magnitudes, i, peak, wrist_speed_px, cal>>

\* report(95); return
Finish ==
    /\ pc = "finish"
    /\ \E o \in SinkOutcomes(sink) :
        /\ Reported(95, o)
        /\ IF SinkRaises(sink, o)
           THEN Raise("ProgressSinkError")
           ELSE pc' = "done" /\ err' = err
    /\ UNCHANGED <<inputs, service, landmarker, frames, fps, frame_w, frame_h, pose_data,
                   overlay_landmarks, flow_magnitudes, i, peak, wrist_speed_px, cal,
                   out, steps>>

Next ==
    \/ Begin
    \/ PoseStage
    \/ PoseDirect
    \/ FlowsEnter
    \/ FlowsEnterDirect
    \/ FlowStep
    \/ FlowsReturnDirect
    \/ FindPeakDirect
    \/ PeakStage
    \/ CalibrateStage
    \/ SpeedStage
    \/ Finish

Spec == Init /\ [][Next]_vars

(***************************************************************************)
(* The service of app.py: request threads, and other threads that call     *)
(* analyze(), all on the one module-level IceHockeyAnalyzer                 *)
(***************************************************************************)
\* the parameters analyze() accepts besides self
AnalyzeParameters == {"video_path", "reference_length_cm", "on_progress"}

\* the arguments of the call in run_analysis: two positional, two by keyword
RunAnalysisArguments ==
    {"video_path", "reference_length_cm", "on_progress", "player_height_cm"}

\* the arguments of a caller that passes the path and a sink
CallerArguments == {"video_path", "on_progress"}

ArgumentsOf(via) == IF via = "request" THEN RunAnalysisArguments ELSE CallerArguments

\* Python binds the arguments to the parameters before the body runs
BindError(arguments) ==
    IF arguments \subseteq AnalyzeParameters THEN "" ELSE "TypeError"

\* the videos the requests name
ServiceVideos ==
    {Video(FALSE, 30, 320, 240, <<>>, NoDetections)}
    \cup {Video(TRUE, 30, 320, 240, FramesOf(n, Swing(n), Uniform(n, "fullA"), 3),
                NoDetections) : n \in {0, MIN_FRAMES - 1, MIN_FRAMES}}

\* the JSON body of a POST /analyze/ice-hockey
Request(id, cb, vp, v) ==
    [via |-> "request", analysis_id |-> id, callback_url |-> cb, video_path |-> vp,
     video |-> v]

\* a call analyzer.analyze(video_path, on_progress=...) from another thread
Caller(v) == [via |-> "caller", video |-> v]

Requests ==
    {Request(id, cb, vp, v) : id \in BOOLEAN, cb \in BOOLEAN, vp \in BOOLEAN,
                              v \in ServiceVideos}
    \cup {Caller(v) : v \in ServiceVideos}

ServiceInit ==
    /\ entry = "service"
    /\ video = Video(FALSE, 0, 0, 0, <<>>, NoDetections)
    /\ ref = NoRef
    /\ sink = "none"
    /\ CallLocals
    /\ req \in [Threads -> Requests]
    /\ ServiceIdle

\* the call of analyze() of thread t ends: it returned (error "") or raised
Ended(t, error) ==
    /\ result' = [result EXCEPT ![t] = [state |-> IF error = "" THEN "returned"
                                                  ELSE "raised",
                                        error |-> error]]
    /\ tpc' = [tpc EXCEPT ![t] = IF req[t].via = "request" THEN "callback"
                                 ELSE "ended"]

\* analyze_ice_hockey: 400 when a field is missing, else the thread is
\* started and 202 returned
Receive ==
    \E t \in Threads :
        /\ tpc[t] = "off"
        /\ req[t].via = "request"
        /\ tpc' = [tpc EXCEPT ![t] =
                    IF ~req[t].analysis_id \/ ~req[t].callback_url THEN "rejected"
                    ELSE IF ~req[t].video_path THEN "rejected"
                    ELSE "started"]
        /\ UNCHANGED <<inputs, pc, landmarker, frames, fps, frame_w, frame_h,
                       pose_data, overlay_landmarks, flow_magnitudes, i, peak,
                       wrist_speed_px, cal, out, err, progress, sinkFailed, steps,
                       req, shared_landmarker, created, handle, result, sent, posts>>

\* another thread is about to call analyze()
StartCaller ==
    \E t \in Threads :
        /\ tpc[t] = "off"
        /\ req[t].via = "caller"
        /\ tpc' = [tpc EXCEPT ![t] = "started"]
        /\ UNCHANGED <<inputs, pc, landmarker, frames, fps, frame_w, frame_h,
                       pose_data, overlay_landmarks, flow_magnitudes, i, peak,
                       wrist_speed_px, cal, out, err, progress, sinkFailed, steps,
                       req, shared_landmarker, created, handle, result, sent, posts>>

\* the call analyzer.analyze(...): the arguments are bound
Call ==
    \E t \in Threads :
        /\ tpc[t] = "started"
        /\ IF BindError(ArgumentsOf(req[t].via)) # ""
           THEN Ended(t, BindError(ArgumentsOf(req[t].via)))
           ELSE /\ tpc' = [tpc EXCEPT ![t] = "load"]
                /\ result' = result
        /\ UNCHANGED <<inputs, pc, landmarker, frames, fps, frame_w, frame_h,
                       pose_data, overlay_landmarks, flow_magnitudes, i, peak,
                       wrist_speed_px, cal, out, err, progress, sinkFailed, steps,
                       req, shared_landmarker, created, handle, sent, posts>>

\* report(5); _load_video; the length check; report(10)
Load ==
    \E t \in Threads :
        /\ tpc[t] = "load"
        /\ IF LoadError(req[t].video) # ""
           THEN Ended(t, LoadError(req[t].video))
           ELSE IF TooShort(Len(req[t].video.frames))
           THEN Ended(t, "TooShort")
           ELSE /\ tpc' = [tpc EXCEPT ![t] = "check"]
                /\ result' = result
        /\ UNCHANGED <<inputs, pc, landmarker, frames, fps, frame_w, frame_h,
                       pose_data, overlay_landmarks, flow_magnitudes, i, peak,
                       wrist_speed_px, cal, out, err, progress, sinkFailed, steps,
                       req, shared_landmarker, created, handle, sent, posts>>

\* _get_landmarker: if self._landmarker is None
CheckLandmarker ==
    \E t \in Threads :
        /\ tpc[t] = "check"
        /\ tpc' = [tpc EXCEPT ![t] = IF shared_landmarker = 0 THEN "create"
                                     ELSE "fetch"]
        /\ UNCHANGED <<inputs, pc, landmarker, frames, fps, frame_w, frame_h,
                       pose_data, overlay_landmarks, flow_magnitudes, i, peak,
                       wrist_speed_px, cal, out, err, progress, sinkFailed, steps,
                       req, shared_landmarker, created, handle, result, sent, posts>>

\* _get_landmarker: self._landmarker = PoseLandmarker.create_from_options(...)
CreateLandmarker ==
    \E t \in Threads, ok \in BOOLEAN :
        /\ tpc[t] = "create"
        /\ IF ok
           THEN /\ created' = created + 1
                /\ shared_landmarker' = created + 1
                /\ tpc' = [tpc EXCEPT ![t] = "fetch"]
                /\ result' = result
           ELSE /\ Ended(t, "LandmarkerCreateError")
                /\ UNCHANGED <<created, shared_landmarker>>
        /\ UNCHANGED <<inputs, pc, landmarker, frames, fps, frame_w, frame_h,
                       pose_data, overlay_landmarks, flow_magnitudes, i, peak,
                       wrist_speed_px, cal, out, err, progress, sinkFailed, steps,
                       req, handle, sent, posts>>

\* _get_landmarker: return self._landmarker
FetchLandmarker ==
    \E t \in Threads :
        /\ tpc[t] = "fetch"
        /\ handle' = [handle EXCEPT ![t] = shared_landmarker]
        /\ tpc' = [tpc EXCEPT ![t] = "pipeline"]
        /\ UNCHANGED <<inputs, pc, landmarker, frames, fps, frame_w, frame_h,
                       pose_data, overlay_landmarks, flow_magnitudes, i, peak,
                       wrist_speed_px, cal, out, err, progress, sinkFailed, steps,
                       req, shared_landmarker, created, result, sent, posts>>

\* the rest of analyze(): detection on the frames, which may raise, and the
\* stages after it
RunPipeline ==
    \E t \in Threads, error \in {"", "DetectError"} :
        /\ tpc[t] = "pipeline"
        /\ Ended(t, error)
        /\ UNCHANGED <<inputs, pc, landmarker, frames, fps, frame_w, frame_h,
                       pose_data, overlay_landmarks, flow_magnitudes, i, peak,
                       wrist_speed_px, cal, out, err, progress, sinkFailed, steps,
                       req, shared_landmarker, created, handle, sent, posts>>

\* run_analysis after the try/except: the payload is posted to callback_url;
\* an exception of the post is caught
PostCallback ==
    \E t \in Threads, delivered \in BOOLEAN :
        /\ tpc[t] = "callback"
        /\ sent' = [sent EXCEPT ![t] =
                        [posted |-> TRUE,
                         success |-> result[t].state = "returned",
                         errorMessage |-> result[t].error,
                         delivered |-> delivered]]
        /\ posts' = [posts EXCEPT ![t] = posts[t] + 1]
        /\ tpc' = [tpc EXCEPT ![t] = "finished"]
        /\ UNCHANGED <<inputs, pc, landmarker, frames, fps, frame_w, frame_h,
                       pose_data, overlay_landmarks, flow_magnitudes, i, peak,
                       wrist_speed_px, cal, out, err, progress, sinkFailed, steps,
                       req, shared_landmarker, created, handle, result>>

ServiceNext ==
    \/ Receive
    \/ StartCaller
    \/ Call
    \/ Load
    \/ CheckLandmarker
    \/ CreateLandmarker
    \/ FetchLandmarker
    \/ RunPipeline
    \/ PostCallback

ServiceSpec == ServiceInit /\ [][ServiceNext]_vars

(***************************************************************************)
(* Properties                                                              *)
(***************************************************************************)
Returned == pc = "done"

Failed == pc = "failed"

\* the stages that come after the length check
LaterStages == {"pose", "flows", "peak", "wrist", "calibrate", "speed", "confidence"}

ShortVideo == entry = "analyze" /\ video.openable /\ Len(video.frames) < MIN_FRAMES

\* C1 as stated: a video that decodes to 4 or fewer frames makes analyze()
\* fail with the too-short error, and no stage after the length check starts.
C1_ShortVideoFailsTooShort ==
    (ShortVideo /\ "load" \in steps)
        => /\ pc = "failed" /\ err = "TooShort"
           /\ steps \cap LaterStages = {}

\* C1, amended: a video that opens and decodes to 4 or fewer frames never
\* gets past the length check: analyze() does not return and starts no pose
\* estimation, optical flow or later stage.  Once _load_video has read the
\* file, the failure is the too-short error when 1 to 4 frames were decoded
\* and the no-frames error of _load_video when none was.
C1_ShortVideoRejected ==
    ShortVideo
        => /\ pc \in {"start", "failed"}
           /\ steps \cap LaterStages = {}
           /\ "load" \in steps
                => /\ pc = "failed"
                   /\ err = IF Len(video.frames) = 0 THEN "NoFrames" ELSE "TooShort"

C1_Witness ==
    /\ ShortVideo
    /\ Len(video.frames) = MIN_FRAMES - 1
    /\ pc = "failed"
    /\ err = "TooShort"

Calibrated == "calibrate" \in steps

\* C2 as stated: calibration always ends with a result whose cm_per_pixel is
\* strictly positive, whatever the detectors report and whatever reference
\* length the caller supplied.
C2_CmPerPixelPositive ==
    Calibrated => cal.ok /\ RLt(RZero, cal.cm)

\* the estimates _auto_calibrate collected in this run
RunEstimates == Estimates(ref, pose_data, video.det)

\* e lies strictly inside the interval between 0.7 x m and 1.3 x m
InsideBand(e, m) ==
    LET lo == RMin(RMul(Rat(7, 10), m), RMul(Rat(13, 10), m))
        hi == RMax(RMul(Rat(7, 10), m), RMul(Rat(13, 10), m))
    IN  RLt(lo, e.cm) /\ RLt(e.cm, hi)

\* the positions of the estimates that agree with the all-estimate median
AgreeingOf(ests) ==
    {k \in 1..Len(ests) : InsideBand(ests[k], Median(CmValues(ests)))}

\* the position of the heaviest estimate among the positions in ks
HeaviestOf(ests, ks) == CHOOSE k \in ks : \A j \in ks : ests[j].w <= ests[k].w

\* sum over the positions in ks of cm x weight, and of weight
RECURSIVE BandWeightedSum(_, _)
BandWeightedSum(ests, ks) ==
    IF ks = {} THEN RZero
    ELSE LET k == CHOOSE x \in ks : TRUE
         IN  RAdd(RMul(ests[k].cm, RInt(ests[k].w)), BandWeightedSum(ests, ks \ {k}))

RECURSIVE BandWeight(_, _)
BandWeight(ests, ks) ==
    IF ks = {} THEN 0
    ELSE LET k == CHOOSE x \in ks : TRUE
         IN  ests[k].w + BandWeight(ests, ks \ {k})

FusedAsClaimed(ests, ks) ==
    /\ cal.ok
    /\ cal.cm = RDiv(BandWeightedSum(ests, ks), RInt(BandWeight(ests, ks)))
    /\ cal.method = ests[HeaviestOf(ests, ks)].name

\* C3 as stated: when at least two estimates agree with the median, the
\* fusion returns the weight-weighted average of the agreeing estimates and
\* labels it with the heaviest of those agreeing estimates.
C3_FusedLabelIsHeaviestContributor ==
    (Calibrated /\ Cardinality(AgreeingOf(RunEstimates)) >= 2)
        => FusedAsClaimed(RunEstimates, AgreeingOf(RunEstimates))

PrimaryAsClaimed(ests) ==
    /\ cal.ok
    /\ cal.cm = ests[HeaviestOf(ests, 1..Len(ests))].cm
    /\ cal.method = ests[HeaviestOf(ests, 1..Len(ests))].name

\* C4 as stated: when the list is not empty and fewer than two estimates
\* agree with the median, the fusion returns the heaviest estimate's value
\* and name unchanged.
C4_DisagreementReturnsPrimary ==
    (Calibrated /\ RunEstimates # <<>> /\ Cardinality(AgreeingOf(RunEstimates)) < 2)
        => PrimaryAsClaimed(RunEstimates)

\* C5 as stated: a failing invocation of the progress sink never changes
\* the outcome of analyze(): the call is not ended by the sink.
C5_SinkFailureHarmless ==
    (sinkFailed /\ video.openable /\ Len(video.frames) >= MIN_FRAMES)
        => ~(pc = "failed" /\ err = "ProgressSinkError")

\* C6 as stated: a failure of the pose capability (creating the landmarker,
\* or detect on a frame) does not make analyze() fail.
C6_PoseFailureNonFatal ==
    ("pose" \in steps /\ pc = "failed")
        => err \notin {"LandmarkerCreateError", "DetectError"}

\* the confidence has been computed
Scored == pc \in {"finish", "done"}

\* the four sub-scores of this run
RunPeakScore == PeakScore(flow_magnitudes, peak.peak_idx)

RunCalScore == CalScore(cal.method, ref.given)

RunVidScore == VidScore(fps, Len(frames), frame_h)

RunPoseScore == PoseScore(pose_data, ~IsNone(wrist_speed_px))

\* wp x peak + wc x calibration + wv x video + wq x pose, weights in
\* hundredths, clamped to [0, 1] and rounded to hundredths
Combined(wp, wc, wv, wq) ==
    RoundTo(Clamp01(RAdd(RAdd(RMul(Rat(wp, 100), RunPeakScore),
                              RMul(Rat(wc, 100), RunCalScore)),
                         RAdd(RMul(Rat(wv, 100), RunVidScore),
                              RMul(Rat(wq, 100), RunPoseScore)))), 100)

NoPoseData == \A k \in 1..Len(pose_data) : IsNone(pose_data[k])

\* C7 as stated: weights 0.30 / 0.35 / 0.15 / 0.20 when pose data is
\* available, and 0.40 / 0.40 / 0.20 over peak, calibration and video when
\* every internal pose record is absent.
C7_WeightsRenormalisedWithoutPose ==
    Scored => out.confidence = IF NoPoseData THEN Combined(40, 40, 20, 0)
                               ELSE Combined(30, 35, 15, 20)

\* C7, amended: the confidence is always the sum with weights 0.30 / 0.35 /
\* 0.15 / 0.20, clamped to [0, 1]; when every internal pose record is absent
\* the pose sub-score is 0, so the pose term adds nothing and the other three
\* keep their weights 0.30 / 0.35 / 0.15.
C7_WeightsFixed ==
    Scored => /\ out.confidence = Combined(30, 35, 15, 20)
              /\ out.confidence \in 0..100
              /\ NoPoseData => /\ RunPoseScore = RZero
                               /\ out.confidence = Combined(30, 35, 15, 0)

C7_Witness ==
    /\ Returned
    /\ NoPoseData
    /\ out.confidence > 0
    /\ out.confidence # Combined(40, 40, 20, 0)

\* every sampled frame yields a valid internal record
AllPosesValid ==
    \A k \in 1..Len(frames) : ~IsNone(RawResults(frames, frame_w, frame_h)[k])

HasPoseHeight ==
    \E k \in 1..Len(RunEstimates) : RunEstimates[k].name = "pose_height"

\* C8 as stated: when every sampled frame yields a valid internal pose
\* record, the fused method is the pose-height estimate and the confidence
\* is at least 0.8.
C8_FullPoseGivesHighConfidence ==
    (Returned /\ AllPosesValid)
        => cal.method = "pose_height" /\ out.confidence >= 80

\* C8, amended: when every sampled frame yields a valid internal pose record
\* and the records give a pose-height estimate (a nose and an ankle more than
\* 10 px apart), the fused method is the pose-height estimate and the
\* confidence analyze() returns is at least 0.53.
C8_FullPoseGivesPoseHeight ==
    (Returned /\ AllPosesValid /\ HasPoseHeight)
        => cal.method = "pose_height" /\ out.confidence >= 53

C8_Witness ==
    /\ Returned
    /\ AllPosesValid
    /\ HasPoseHeight
    /\ Len(RunEstimates) >= 3
    /\ out.confidence = 53

\* speed_cm_per_sec of the run on the same frames, pose and detector outputs
\* with no reference length
DefaultCalibration == AutoCalibrate(frame_w, NoRef, pose_data, video.det)

DefaultSpeed == SpeedCmPerSec(peak.final_peak, fps, DefaultCalibration.cm, wrist_speed_px)

\* speed = DefaultSpeed x L / 155
RescaledBy(L) ==
    RMul(out.speed_cm_per_sec, RInt(STICK_LENGTH_CM)) = RMul(DefaultSpeed, RInt(L))

\* C9 as stated: with an explicit reference length L the speed before
\* rounding is the default run's speed times L / 155, whichever estimates
\* are present.
C9_SpeedScalesWithReference ==
    (Returned /\ ref.given) => RescaledBy(ref.val)

StickNames == {"stick_flow", "stick_ridge", "stick_edge"}

OnlyStickEstimates ==
    \A k \in 1..Len(RunEstimates) : RunEstimates[k].name \in StickNames

\* C9, amended: with an explicit non-zero reference length L (0 counts as
\* not supplied), and when every calibration estimate comes from a stick
\* detector or the frame-width fallback is used, the speed before rounding
\* is the default run's speed times L / 155.
C9_SpeedScalesWhenStickBased ==
    (Returned /\ ref.given /\ ref.val # 0 /\ OnlyStickEstimates)
        => RescaledBy(ref.val)

C9_Witness ==
    /\ Returned
    /\ ref = RefOf(2 * STICK_LENGTH_CM)
    /\ Len(RunEstimates) >= 2
    /\ OnlyStickEstimates
    /\ RLt(RZero, out.speed_cm_per_sec)

\* the magnitudes are those of the consecutive pairs, in index order
InPairOrder(mags) ==
    \A k \in 1..Len(mags) : mags[k] = Farneback(frames[k], frames[k + 1])

\* C10: _compute_optical_flows returns exactly n - 1 magnitudes, element i
\* being the value of the pair (i, i + 1), and the speed series analyze()
\* returns has the same length and order.
C10_SeriesLengthAndOrder ==
    /\ pc = "flow_loop" => Len(flow_magnitudes) = i /\ InPairOrder(flow_magnitudes)
    /\ pc \in {"returned", "calibrate", "speed", "finish", "done"}
        => /\ Len(flow_magnitudes) = Len(frames) - 1
           /\ InPairOrder(flow_magnitudes)
    /\ Scored
        => /\ Len(out.frame_speeds_kmh) = Len(frames) - 1
           /\ \A k \in 1..(Len(frames) - 1) :
                out.frame_speeds_kmh[k] =
                    FrameSpeedKmh(Farneback(frames[k], frames[k + 1]), fps, cal.cm)

C10_Witness ==
    /\ Returned
    /\ Len(frames) = MaxFrames
    /\ flow_magnitudes = [k \in 1..(MaxFrames - 1) |-> IF k % 2 = 1 THEN 3 ELSE 1]
    /\ out.frame_speeds_kmh[1] # out.frame_speeds_kmh[2]

\* _find_peak_speed has returned on this run
PeakFound == "peak" \in steps

\* the series value at the returned index
RawAtPeak == RInt(flow_magnitudes[peak.peak_idx + 1])

\* C11: the peak index is inside the series and is the smallest index
\* holding the series maximum, also when the magnitudes are all equal or
\* all zero.
C11_PeakIsFirstMaximum ==
    PeakFound =>
        /\ peak.peak_idx \in 0..(Len(flow_magnitudes) - 1)
        /\ \A k \in 1..Len(flow_magnitudes) :
                flow_magnitudes[k] <= flow_magnitudes[peak.peak_idx + 1]
        /\ \A k \in 1..peak.peak_idx :
                flow_magnitudes[k] < flow_magnitudes[peak.peak_idx + 1]

C11_Witness ==
    /\ PeakFound
    /\ peak.peak_idx >= 1
    /\ flow_magnitudes[peak.peak_idx + 1] > 0
    /\ \E k \in (peak.peak_idx + 2)..Len(flow_magnitudes) :
            flow_magnitudes[k] = flow_magnitudes[peak.peak_idx + 1]

\* the Python indices of the smoothing window around the peak, clamped to
\* the series
WindowIndices ==
    {j \in 0..(Len(flow_magnitudes) - 1) :
        peak.peak_idx - PEAK_WINDOW <= j /\ j <= peak.peak_idx + PEAK_WINDOW}

WindowFirst == CHOOSE j \in WindowIndices : \A h \in WindowIndices : j <= h

\* the float mean of the window's values, taken in index order
WindowMean ==
    Mean([k \in 1..Cardinality(WindowIndices) |->
            RInt(flow_magnitudes[WindowFirst + k])])

\* C12: the final peak magnitude is at least the raw value at the peak index
\* and at least the mean of the window around the peak.
C12_FinalAtLeastRawAndSmoothed ==
    PeakFound => /\ RLe(RawAtPeak, peak.final_peak)
                 /\ RLe(WindowMean, peak.final_peak)

C12_Witness ==
    /\ PeakFound
    /\ peak.peak_idx = Len(flow_magnitudes) - 1
    /\ Cardinality(WindowIndices) = PEAK_WINDOW + 1
    /\ RLt(WindowMean, peak.final_peak)
    /\ RLt(RZero, WindowMean)

RoundingSlack == Rat(Pow2(FloatBits) + 6, Pow2(FloatBits))

PoseDone == pc \in {"posed", "flows"}

\* frame k (1-based) is on the internal sampling grid
InternallySampled(k) == (k - 1) % InternalStep(Len(frames)) = 0

\* the landmarks the detector reports for frame k with a visibility above a
\* threshold (in tenths)
Passing(k, indices, threshold) ==
    {idx \in indices : Visibility(frames[k].pose, idx) > threshold}

\* the detector found a pose in frame k
PoseFound(k) == frames[k].pose # "none"

\* the detection of frame k is valid for internal use
ValidDetection(k) ==
    PoseFound(k) /\ Cardinality(Passing(k, INTERNAL_LM_INDICES, 5)) >= 4

\* the internally sampled frames up to k with a valid detection
ValidUpTo(k) == {j \in 1..k : InternallySampled(j) /\ ValidDetection(j)}

LatestValid(k) == CHOOSE j \in ValidUpTo(k) : \A h \in ValidUpTo(k) : h <= j

\* C13: after _run_pose_estimation the internal record of every frame is the
\* record of the latest internally sampled frame at or before it whose
\* detection was valid, and is absent when there is no such frame.
C13_RecordsOnlyCarriedForward ==
    PoseDone =>
        /\ Len(pose_data) = Len(frames)
        /\ \A k \in 1..Len(frames) :
            pose_data[k] =
                IF ValidUpTo(k) = {} THEN None
                ELSE InternalRecord(TheValue(Detect(frames[LatestValid(k)],
                                                    frame_w, frame_h)),
                                    frame_w, frame_h)

C13_Witness ==
    /\ PoseDone
    /\ InternalStep(Len(frames)) = 2
    /\ IsNone(pose_data[1]) /\ IsNone(pose_data[2])
    /\ ValidDetection(3) /\ ValidDetection(4)
    /\ pose_data[4] = pose_data[3]
    /\ pose_data[4] # InternalRecord(TheValue(Detect(frames[4], frame_w, frame_h)),
                                     frame_w, frame_h)
    /\ ~IsNone(pose_data[Len(frames)])

\* C14: the overlay stream has one entry per frame; entry i is non-null
\* exactly when i is a multiple of the overlay step 3, the detector returned
\* landmarks for frame i and at least 4 overlay landmarks have visibility
\* above 0.3; the forward fill of the internal stream fills no overlay entry.
C14_OverlayNeverFilled ==
    PoseDone =>
        /\ overlay_landmarks.step = 3
        /\ Len(overlay_landmarks.frames) = Len(frames)
        /\ \A k \in 1..Len(frames) :
            ~IsNone(overlay_landmarks.frames[k]) <=>
                /\ (k - 1) % 3 = 0
                /\ PoseFound(k)
                /\ Cardinality(Passing(k, OVERLAY_LM_INDICES, 3)) >= 4

C14_Witness ==
    /\ PoseDone
    /\ Len(frames) >= 5
    /\ ~IsNone(overlay_landmarks.frames[1]) /\ IsNone(pose_data[1])
    /\ ~IsNone(pose_data[2]) /\ ~IsNone(pose_data[3])
    /\ IsNone(overlay_landmarks.frames[2]) /\ IsNone(overlay_landmarks.frames[3])
    /\ IsNone(overlay_landmarks.frames[4]) /\ ~IsNone(pose_data[4])

\* the threads whose call of analyze() has obtained a landmarker
HandleHolders == {t \in Threads : handle[t] # 0}

\* C15 as stated: in every interleaving of the threads the landmarker is
\* constructed at most once and every call works with that one handle.
C15_LandmarkerConstructedOnce ==
    /\ created <= 1
    /\ \A t \in HandleHolders, u \in HandleHolders : handle[t] = handle[u]

\* the request of thread t was accepted and run_analysis has finished
Finished(t) == req[t].via = "request" /\ tpc[t] = "finished"

\* the video of the request opens and has at least 5 frames
GoodVideo(t) == req[t].video.openable /\ Len(req[t].video.frames) >= 5

\* a stage of the analysis of the video raised: the landmarker could not be
\* created or the detection failed
StageFailed(t) == result[t].error \in {"LandmarkerCreateError", "DetectError"}

\* C16 as stated: an accepted request gets exactly one callback POST
\* attempt; when the video opens and has at least 5 frames the callback
\* carries success = true, and success = false is sent only when the
\* analysis of the video itself failed.
C16_GoodVideoReportedAsSuccess ==
    \A t \in Threads :
        Finished(t) =>
            /\ posts[t] = 1
            /\ GoodVideo(t) /\ ~StageFailed(t) => sent[t].success
            /\ ~sent[t].success => ~GoodVideo(t) \/ StageFailed(t)

=============================================================================
